---- MODULE Spec2Model ----
(***************************************************************************)
(* A model of the sommelier-auction-bot workspace:                         *)
(*   - crates/sommelier-auction-cache/src/lib.rs: the process-wide map of  *)
(*     active auctions behind a tokio RwLock, its refresh loop (run) and   *)
(*     its readers (get_active_auctions);                                  *)
(*   - crates/sommelier-auction-order-engine/src/watcher.rs: the Watcher   *)
(*     loop (monitor_auctions) and the bid evaluator (evaluate_bid);       *)
(*   - crates/sommelier-auction-tg/src/db.rs: the user_info table of the   *)
(*     telegram bot and the statements run on it;                          *)
(*   - crates/sommelier-auction-tg/src/main.rs: the SetWallet branch of    *)
(*     message_handler.                                                    *)
(***************************************************************************)
EXTENDS Integers, Sequences, FiniteSets, TLC

\* ------------------------------------------------------------------ bounds
\* Auction ids the source may return are 1..MaxId.
MaxId == 2
\* The source returns at most MaxBatch auctions in one response.
MaxBatch == 2

\* Telegram user ids are 1..MaxUser.
MaxUser == 2
\* Rows are inserted while the next rowid is at most MaxRowId.
MaxRowId == 4

\* Unsigned integers are WordBits wide (u64 has 64 bits) and floating-point
\* numbers carry MantissaBits significant bits (f64 has 53): the widths are
\* scaled down together, MantissaBits < WordBits as 53 < 64, so that integers
\* too long for the significand are within the model's range.
WordBits == 5
MantissaBits == 3

\* ------------------------------------------------------------ cache: data
AuctionIds == 1..MaxId

\* The fields of an AuctionProto other than its id, as one value: two records
\* with the same id and different contents differ in "rev".
Revisions == {"a", "b"}

AuctionProto == [id : AuctionIds, rev : Revisions]

RECURSIVE SeqsUpTo(_, _)
SeqsUpTo(S, n) ==
  IF n = 0 THEN {<<>>}
  ELSE LET shorter == SeqsUpTo(S, n - 1)
       IN  shorter \cup {Append(s, x) : s \in {t \in shorter : Len(t) = n - 1}, x \in S}

\* What client.active_auctions() may answer with: any Vec<AuctionProto>.
SourceResponses == SeqsUpTo(AuctionProto, MaxBatch)

\* A source that answers with one list of each length only.
ListOfLength(n) == [k \in 1..n |-> [id |-> ((k - 1) % MaxId) + 1, rev |-> "a"]]

ListsOfEachLength == {ListOfLength(n) : n \in 0..MaxBatch}

\* the lists a source of the given kind may answer with
AnswersOf(kind) ==
  IF kind = "one list of each length" THEN ListsOfEachLength ELSE SourceResponses

\* Cache::default(): the empty HashMap.
EmptyMap == [i \in {} |-> [id |-> 0, rev |-> "a"]]

\* a variant of Upsert that keeps the record already cached under the id
InsertIfAbsent(m, a) == [i \in (DOMAIN m) \cup {a.id} |-> IF i \in DOMAIN m THEN m[i] ELSE a]

\* a variant of Upsert that stores the record under the next free key
\* instead of under its id
InsertAtLen(m, a) ==
  [i \in (DOMAIN m) \cup {Cardinality(DOMAIN m) + 1} |-> IF i \in DOMAIN m THEN m[i] ELSE a]

\* HashMap::insert(auction.id, auction)
Upsert(m, a) == [i \in (DOMAIN m) \cup {a.id} |-> IF i = a.id THEN a ELSE m[i]]

\* the body of the for loop of refresh_active_auctions, run over a whole list
RECURSIVE UpsertAll(_, _)
UpsertAll(m, auctions) ==
  IF auctions = <<>> THEN m
  ELSE UpsertAll(Upsert(m, Head(auctions)), Tail(auctions))

\* HashMap::values().cloned().collect(): the records, in no particular order
Values(m) == {m[i] : i \in DOMAIN m}

\* ------------------------------------------------------- numbers: u64, f64
RECURSIVE Pow2(_)
Pow2(k) == IF k = 0 THEN 1 ELSE 2 * Pow2(k - 1)

\* u64::MAX
U64Max == Pow2(WordBits) - 1

\* A finite non-negative f64 is the rational n / d, d a power of two, in
\* lowest terms.
RECURSIVE Reduce(_, _)
Reduce(n, d) ==
  IF d > 1 /\ n % 2 = 0 THEN Reduce(n \div 2, d \div 2) ELSE [n |-> n, d |-> d]

\* The f64 nearest to up * n / (down * d), ties to the even significand:
\* n / d is first scaled by powers of two into [2^(p-1), 2^p), then rounded
\* to an integer. The exponent's range is not modelled.
RECURSIVE RoundScaled(_, _, _, _)
RoundScaled(n, d, up, down) ==
  IF n >= d * Pow2(MantissaBits) THEN RoundScaled(n, 2 * d, 2 * up, down)
  ELSE IF n < d * Pow2(MantissaBits - 1) THEN RoundScaled(2 * n, d, up, 2 * down)
  ELSE LET q == n \div d
           r == n % d
           m == IF 2 * r > d \/ (2 * r = d /\ q % 2 = 1) THEN q + 1 ELSE q
       IN  Reduce(m * up, down)

\* a variant of RoundToF64 for a significand long enough for every input
RoundExact(n, d) == [n |-> n, d |-> d]

\* rounding of a non-negative rational n / d to f64
RoundToF64(n, d) == IF n = 0 THEN [n |-> 0, d |-> 1] ELSE RoundScaled(n, d, 1, 1)

\* `x as f64` of an unsigned integer
U64ToF64(x) == RoundToF64(x, 1)

\* `f as u64`: truncates towards zero and saturates at u64::MAX
F64ToU64(f) == LET t == f.n \div f.d IN IF t > U64Max THEN U64Max ELSE t

\* f64 division and multiplication: the exact result, rounded
F64Div(a, b) == RoundToF64(a.n * b.d, a.d * b.n)

F64Mul(a, b) == RoundToF64(a.n * b.n, a.d * b.d)

\* a <= b
F64Le(a, b) == a.n * b.d <= b.n * a.d

\* A decimal text is [ok, n, d]: the digits of n / d when ok, and something
\* that is no number otherwise. str::parse::<f64>: the nearest f64.
ParseF64(text) ==
  IF text.ok THEN [ok |-> TRUE, val |-> RoundToF64(text.n, text.d)]
  ELSE [ok |-> FALSE, val |-> [n |-> 0, d |-> 1]]

\* An integer text is [ok, v]: the digits of v when ok. str::parse::<u64>
\* fails on what is no number and on a number above u64::MAX.
ParseU64(text) ==
  IF text.ok /\ text.v <= U64Max THEN [ok |-> TRUE, val |-> text.v]
  ELSE [ok |-> FALSE, val |-> 0]

\* std::cmp::min
Min(a, b) == IF a <= b THEN a ELSE b

\* ----------------------------------------------------------- watcher: data
\* The denoms Denom::try_from accepts; any other string is refused.
Denoms == {"d1", "d2"}

DenomTryFrom(str) == [ok |-> str \in Denoms, val |-> str]

Dec(n, d) == [ok |-> TRUE, n |-> n, d |-> d]
NotADec == [ok |-> FALSE, n |-> 0, d |-> 1]
Digits(v) == [ok |-> TRUE, v |-> v]
NotDigits == [ok |-> FALSE, v |-> 0]

\* Option<Coin>
SomeCoin(denom, amount) == [some |-> TRUE, denom |-> denom, amount |-> amount]
NoCoin == [some |-> FALSE, denom |-> "", amount |-> NotDigits]

\* the fields of an Auction the watcher reads
MkAuction(id, start, price, remaining) ==
  [id |-> id,
   starting_tokens_for_sale |-> start,
   current_unit_price_in_usomm |-> price,
   remaining_tokens_for_sale |-> remaining]

MkOrder(max, min, fee) ==
  [maximum_usomm_in |-> max, minimum_usd_value_out |-> min, fee_token |-> fee]

MkBid(id, fee, max, out) ==
  [auction_id |-> id, fee_token |-> fee, maximum_usomm_in |-> max,
   minimum_tokens_out |-> out]

\* Option<Bid>, and the panic of an unwrap as a third outcome
NoBid == MkBid(0, "", 0, 0)
None == [kind |-> "none", bid |-> NoBid]
Panic == [kind |-> "panic", bid |-> NoBid]
SomeBid(b) == [kind |-> "bid", bid |-> b]

\* Watcher::evaluate_bid
evaluate_bid(order, usd_unit_value, auction) ==
  LET auction_unit_price_in_usomm == ParseF64(auction.current_unit_price_in_usomm)
      coin == auction.remaining_tokens_for_sale
      remaining_tokens_for_sale == ParseU64(coin.amount)
  IN  IF ~auction_unit_price_in_usomm.ok THEN Panic
      ELSE IF ~coin.some \/ ~remaining_tokens_for_sale.ok THEN Panic
      ELSE LET max_allowed_usomm_offer == order.maximum_usomm_in
               min_possible_token_out ==
                 Min(F64ToU64(F64Div(U64ToF64(max_allowed_usomm_offer),
                                     auction_unit_price_in_usomm.val)),
                     remaining_tokens_for_sale.val)
               usd_value_out ==
                 F64Mul(U64ToF64(min_possible_token_out), usd_unit_value)
           IN  IF F64Le(U64ToF64(order.minimum_usd_value_out), usd_value_out)
               THEN SomeBid(MkBid(auction.id, order.fee_token,
                                  max_allowed_usomm_offer, min_possible_token_out))
               ELSE None

\* ------------------------------------------------------------ cache: lock
Readers == {"r1", "r2"}
Writer == "w"

VARIABLES
  cache,        \* ACTIVE_AUCTIONS: the HashMap<u32, AuctionProto>
  lock,         \* the RwLock around it: [writer, readers, queue]
  cachePc,      \* where run() is: "start", "returned", "query", "write", "sleep"
  fetched,      \* the Vec the source answered with in this refresh
  pending,      \* the part of fetched the for loop has not inserted yet
  lastResult,   \* what the last refresh_active_auctions returned: "none", "ok", "err"
  before,       \* the mapping as it was when the current refresh was called
  everFailed,   \* whether some refresh of this run has failed
  prevList,     \* while the query is in flight: whether the refresh before
                \* this one succeeded, and the Vec it was answered with
  repeated,     \* whether this refresh and the one before it both got their
                \* answer, and the same one
  source,       \* the auction module queried, by the kind of its answers
  rpc,          \* per reader, where get_active_auctions() is
  snap,         \* per reader, the Vec it collected
  wPc,          \* where the Watcher is: "new", "connect", "refresh", "scan",
                \* "sleep", "returned" (monitor_auctions returned Err), "panicked"
  active_auctions,  \* Watcher.active_auctions
  orders,       \* Watcher.orders
  prices,       \* Watcher.prices
  ai,           \* the auction the outer for loop of monitor_auctions is at
  oi,           \* the order the inner for loop is at, 0 before it is entered
  visited,      \* the (auction, order) places the inner loop reached this cycle
  evaluated,    \* those of them evaluate_bid was called for
  bids,         \* the Some(bid) results of this cycle, each with its place
                \* and the key of the order book its order is stored under
  tx,           \* what was sent on the Sender<Bid> given to monitor_auctions
  lastSet,      \* the argument of the last call of update_prices
  pricesBefore, \* self.prices as that call found it, until monitor_auctions
                \* is called
  response,     \* what the source answered the last query of the watcher with
  dropped,      \* in a cycle: whether its answer lacked an auction of the
                \* list before it
  evalIn,       \* evaluate_bid on its own: the arguments
  evalOut,      \* evaluate_bid on its own: the result
  db,           \* the database file: whether user_info exists, and its rows
  dbCall,       \* the last call of a function of db.rs, with its arguments
  dbResult,     \* what that call returned
  dbBefore,     \* the database as that call found it
  hPc,          \* each run of message_handler: where it is in the SetWallet branch
  hCmd,         \* its user and the address it is about to store
  hSaw,         \* whether its get_user_info found a row
  hOut,         \* how its last command ended
  lastDone      \* per user, the address of the last command that wrote its row

cacheVars ==
  <<cache, lock, cachePc, fetched, pending, lastResult, before, everFailed,
    prevList, repeated, source, rpc, snap>>

watcherVars ==
  <<wPc, active_auctions, orders, prices, ai, oi, visited, evaluated, bids, tx,
    lastSet, pricesBefore, response, dropped>>

evalVars == <<evalIn, evalOut>>

storeVars == <<db, dbCall, dbResult, dbBefore>>

walletVars == <<hPc, hCmd, hSaw, hOut, lastDone>>

vars == <<cacheVars, watcherVars, evalVars, storeVars, walletVars>>

\* tokio::sync::RwLock: any number of read guards, or one write guard. The
\* lock is fair: requests are served in the order they were made, so a reader
\* that asks after a waiting writer waits behind it.
\* a variant of ReadCompatible that lets readers in beside the writer
ReadBesideWriter(l) == TRUE

ReadCompatible(l) == ~l.writer

WriteCompatible(l) == ~l.writer /\ l.readers = {}

\* hand the lock to the waiters at the head of the queue, as far as it goes
RECURSIVE Grant(_)
Grant(l) ==
  IF l.queue = <<>> THEN l
  ELSE LET h == Head(l.queue)
       IN  IF h = Writer
           THEN IF WriteCompatible(l)
                THEN [l EXCEPT !.writer = TRUE, !.queue = Tail(@)]
                ELSE l
           ELSE IF ReadCompatible(l)
                THEN Grant([l EXCEPT !.readers = @ \cup {h}, !.queue = Tail(@)])
                ELSE l

\* a variant of Acquire in which a reader takes the lock whenever no writer
\* holds it, passing the writers that wait
AcquireBarging(l, t) ==
  IF t # Writer /\ ~l.writer
  THEN [l EXCEPT !.readers = @ \cup {t}]
  ELSE Grant([l EXCEPT !.queue = Append(@, t)])

\* .read().await / .write().await: join the queue; granted at once when free
Acquire(l, t) == Grant([l EXCEPT !.queue = Append(@, t)])

\* dropping a guard
ReleaseRead(l, r) == Grant([l EXCEPT !.readers = @ \ {r}])

ReleaseWrite(l) == Grant([l EXCEPT !.writer = FALSE])

\* ------------------------------------------------------- cache: run loop
InitCacheOver(kind) ==
  /\ source = kind
  /\ cache = EmptyMap
  /\ lock = [writer |-> FALSE, readers |-> {}, queue |-> <<>>]
  /\ cachePc = "start"
  /\ fetched = <<>>
  /\ pending = <<>>
  /\ lastResult = "none"
  /\ before = EmptyMap
  /\ everFailed = FALSE
  /\ prevList = [ok |-> FALSE, list |-> <<>>]
  /\ repeated = FALSE
  /\ rpc = [r \in Readers |-> "idle"]
  /\ snap = [r \in Readers |-> {}]

InitCache == InitCacheOver("any list")

\* the call of refresh_active_auctions at the top of the loop body
BeginRefresh ==
  /\ cachePc' = "query"
  /\ before' = cache
  /\ fetched' = <<>>
  /\ pending' = <<>>
  /\ lastResult' = "none"
  /\ prevList' = [ok |-> lastResult = "ok", list |-> fetched]
  /\ repeated' = FALSE

\* run: Client::with_endpoints succeeded; the loop is entered
CreateClientOk ==
  /\ cachePc = "start"
  /\ BeginRefresh
  /\ UNCHANGED <<cache, lock, rpc, snap, everFailed>>
  /\ UNCHANGED source
  /\ UNCHANGED <<watcherVars, evalVars, storeVars, walletVars>>

\* run: Client::with_endpoints failed; run returns Err before the loop
CreateClientErr ==
  /\ cachePc = "start"
  /\ cachePc' = "returned"
  /\ UNCHANGED <<cache, lock, fetched, pending, lastResult, before, rpc, snap, everFailed>>
  /\ UNCHANGED <<prevList, repeated>>
  /\ UNCHANGED source
  /\ UNCHANGED <<watcherVars, evalVars, storeVars, walletVars>>

\* refresh_active_auctions: the source answered; ask for the write lock
QueryOk ==
  /\ cachePc = "query"
  /\ \E resp \in AnswersOf(source) :
       /\ fetched' = resp
       /\ pending' = resp
       /\ repeated' = (prevList.ok /\ prevList.list = resp)
  /\ prevList' = [ok |-> FALSE, list |-> <<>>]
  /\ lock' = Acquire(lock, Writer)
  /\ cachePc' = "write"
  /\ UNCHANGED <<cache, lastResult, before, rpc, snap, everFailed>>
  /\ UNCHANGED source
  /\ UNCHANGED <<watcherVars, evalVars, storeVars, walletVars>>

\* a variant of QueryErr that drops the cached entries on a failed query
QueryErrClears ==
  /\ cachePc = "query"
  /\ cache' = EmptyMap
  /\ lastResult' = "err"
  /\ everFailed' = TRUE
  /\ prevList' = [ok |-> FALSE, list |-> <<>>]
  /\ UNCHANGED repeated
  /\ cachePc' = "sleep"
  /\ UNCHANGED <<lock, fetched, pending, before, rpc, snap>>
  /\ UNCHANGED source
  /\ UNCHANGED <<watcherVars, evalVars, storeVars, walletVars>>

\* a variant of QueryErr in which run returns the error instead of logging it
QueryErrReturns ==
  /\ cachePc = "query"
  /\ lastResult' = "err"
  /\ everFailed' = TRUE
  /\ prevList' = [ok |-> FALSE, list |-> <<>>]
  /\ UNCHANGED repeated
  /\ cachePc' = "returned"
  /\ UNCHANGED <<cache, lock, fetched, pending, before, rpc, snap>>
  /\ UNCHANGED source
  /\ UNCHANGED <<watcherVars, evalVars, storeVars, walletVars>>

\* refresh_active_auctions: the query failed, `?` returns the error before
\* the lock is asked for; run logs it and goes to sleep
QueryErr ==
  /\ cachePc = "query"
  /\ lastResult' = "err"
  /\ everFailed' = TRUE
  /\ prevList' = [ok |-> FALSE, list |-> <<>>]
  /\ UNCHANGED repeated
  /\ cachePc' = "sleep"
  /\ UNCHANGED <<cache, lock, fetched, pending, before, rpc, snap>>
  /\ UNCHANGED source
  /\ UNCHANGED <<watcherVars, evalVars, storeVars, walletVars>>

\* one iteration of the for loop, under the write guard
InsertNext ==
  /\ cachePc = "write"
  /\ lock.writer
  /\ pending # <<>>
  /\ cache' = Upsert(cache, Head(pending))
  /\ pending' = Tail(pending)
  /\ UNCHANGED <<lock, cachePc, fetched, lastResult, before, rpc, snap, everFailed>>
  /\ UNCHANGED <<prevList, repeated>>
  /\ UNCHANGED source
  /\ UNCHANGED <<watcherVars, evalVars, storeVars, walletVars>>

\* the for loop is over: Ok(()) is returned, the write guard is dropped, and
\* run goes to sleep
RefreshDone ==
  /\ cachePc = "write"
  /\ lock.writer
  /\ pending = <<>>
  /\ lock' = ReleaseWrite(lock)
  /\ lastResult' = "ok"
  /\ cachePc' = "sleep"
  /\ UNCHANGED <<cache, fetched, pending, before, rpc, snap, everFailed>>
  /\ UNCHANGED <<prevList, repeated>>
  /\ UNCHANGED source
  /\ UNCHANGED <<watcherVars, evalVars, storeVars, walletVars>>

\* a variant of CacheWake in which the refresh asks for the write lock before
\* it queries the source
CacheWakeLocksFirst ==
  /\ cachePc = "sleep"
  /\ BeginRefresh
  /\ lock' = Acquire(lock, Writer)
  /\ UNCHANGED <<cache, rpc, snap, everFailed>>
  /\ UNCHANGED source
  /\ UNCHANGED <<watcherVars, evalVars, storeVars, walletVars>>

\* the 6 s sleep is over: the next iteration calls refresh_active_auctions
CacheWake ==
  /\ cachePc = "sleep"
  /\ BeginRefresh
  /\ UNCHANGED <<cache, lock, rpc, snap, everFailed>>
  /\ UNCHANGED source
  /\ UNCHANGED <<watcherVars, evalVars, storeVars, walletVars>>

\* ------------------------------------------------------- cache: readers
\* get_active_auctions is called: ask for a read guard
ReadRequest(r) ==
  /\ rpc[r] = "idle"
  /\ lock' = Acquire(lock, r)
  /\ rpc' = [rpc EXCEPT ![r] = "read"]
  /\ UNCHANGED <<cache, cachePc, fetched, pending, lastResult, before, snap, everFailed>>
  /\ UNCHANGED <<prevList, repeated>>
  /\ UNCHANGED source
  /\ UNCHANGED <<watcherVars, evalVars, storeVars, walletVars>>

\* under the read guard: values().cloned().collect()
ReadCopy(r) ==
  /\ rpc[r] = "read"
  /\ r \in lock.readers
  /\ snap' = [snap EXCEPT ![r] = Values(cache)]
  /\ rpc' = [rpc EXCEPT ![r] = "copied"]
  /\ UNCHANGED <<cache, lock, cachePc, fetched, pending, lastResult, before, everFailed>>
  /\ UNCHANGED <<prevList, repeated>>
  /\ UNCHANGED source
  /\ UNCHANGED <<watcherVars, evalVars, storeVars, walletVars>>

\* the Vec is returned and the read guard dropped
ReadReturn(r) ==
  /\ rpc[r] = "copied"
  /\ lock' = ReleaseRead(lock, r)
  /\ rpc' = [rpc EXCEPT ![r] = "idle"]
  /\ snap' = [snap EXCEPT ![r] = {}]
  /\ UNCHANGED <<cache, cachePc, fetched, pending, lastResult, before, everFailed>>
  /\ UNCHANGED <<prevList, repeated>>
  /\ UNCHANGED source
  /\ UNCHANGED <<watcherVars, evalVars, storeVars, walletVars>>

CacheNext ==
  \/ CreateClientOk
  \/ CreateClientErr
  \/ QueryOk
  \/ QueryErr
  \/ InsertNext
  \/ RefreshDone
  \/ CacheWake
  \/ \E r \in Readers : ReadRequest(r)
  \/ \E r \in Readers : ReadCopy(r)
  \/ \E r \in Readers : ReadReturn(r)

\* -------------------------------------------------------- watcher: inputs
\* What the watcher's source may answer with: lists over these auctions.
WatchedAuctions ==
  { MkAuction(1, SomeCoin("d1", Digits(10)), Dec(2, 1), SomeCoin("d1", Digits(10))),
    MkAuction(2, SomeCoin("d2", Digits(9)), Dec(1, 2), SomeCoin("d2", Digits(3))),
    MkAuction(3, SomeCoin("junk", Digits(5)), Dec(1, 1), SomeCoin("junk", Digits(5))),
    MkAuction(4, SomeCoin("d1", Digits(7)), NotADec, SomeCoin("d1", Digits(7))),
    MkAuction(5, NoCoin, Dec(1, 1), SomeCoin("d2", Digits(4))),
    MkAuction(6, SomeCoin("d2", Digits(8)), Dec(1, 1), SomeCoin("d2", NotDigits)),
    MkAuction(7, SomeCoin("d1", Digits(6)), Dec(3, 1), NoCoin) }

WatcherResponses == SeqsUpTo(WatchedAuctions, MaxBatch)

\* The order books a Watcher may be constructed with.
NoOrders == [d \in {} |-> <<>>]

OrderBooks ==
  { NoOrders,
    [d \in {"d1"} |-> <<MkOrder(4, 1, "d1"), MkOrder(4, 9, "d2")>>],
    [d \in Denoms |-> IF d = "d1" THEN <<MkOrder(6, 3, "d2")>>
                                   ELSE <<MkOrder(2, 2, "d1")>>] }

\* The usd values of a price map, as f64
UsdValues == {RoundToF64(1, 2), RoundToF64(2, 1)}

RECURSIVE MapsOver(_, _)
MapsOver(D, V) ==
  IF D = {} THEN {[d \in {} |-> CHOOSE v \in V : TRUE]}
  ELSE LET d0 == CHOOSE d \in D : TRUE
           rest == MapsOver(D \ {d0}, V)
       IN  rest \cup {[d \in (DOMAIN m) \cup {d0} |-> IF d = d0 THEN v ELSE m[d]] :
                        m \in rest, v \in V}

\* every HashMap<Denom, f64> over the denoms
PriceMaps == UNION {MapsOver(D, UsdValues) : D \in SUBSET Denoms}

\* ------------------------------------------------------- watcher: actions
\* Watcher::new
InitWatcher(book) ==
  /\ wPc = "new"
  /\ active_auctions = <<>>
  /\ orders = book
  /\ prices = [d \in {} |-> RoundToF64(1, 1)]
  /\ ai = 0
  /\ oi = 0
  /\ visited = {}
  /\ evaluated = {}
  /\ bids = {}
  /\ tx = <<>>
  /\ lastSet = prices
  /\ pricesBefore = prices
  /\ response = <<>>
  /\ dropped = FALSE

\* a variant of update_prices that merges the new prices into the old map
merge_prices(old, m) ==
  [d \in (DOMAIN old) \cup (DOMAIN m) |-> IF d \in DOMAIN m THEN m[d] ELSE old[d]]

\* Watcher::update_prices: self.prices = prices
update_prices(old, m) == m

\* update_prices takes &mut self, as monitor_auctions does: it can run only
\* while monitor_auctions is not running.
UpdatePrices ==
  /\ wPc \in {"new", "returned"}
  /\ \E m \in PriceMaps :
       /\ prices' = update_prices(prices, m)
       /\ lastSet' = m
  /\ pricesBefore' = prices
  /\ UNCHANGED <<wPc, active_auctions, orders, ai, oi, visited, evaluated, bids, tx>>
  /\ UNCHANGED <<response, dropped>>
  /\ UNCHANGED <<cacheVars, evalVars, storeVars, walletVars>>

\* monitor_auctions is called, by the owner of the Watcher
MonitorAuctions ==
  /\ wPc \in {"new", "returned"}
  /\ wPc' = "connect"
  /\ pricesBefore' = prices
  /\ UNCHANGED <<active_auctions, orders, prices, ai, oi, visited, evaluated, bids, tx>>
  /\ UNCHANGED lastSet
  /\ UNCHANGED <<response, dropped>>
  /\ UNCHANGED <<cacheVars, evalVars, storeVars, walletVars>>

\* the top of the loop body: refresh_active_auctions is called
BeginCycle ==
  /\ wPc' = "refresh"
  /\ ai' = 0
  /\ oi' = 0
  /\ visited' = {}
  /\ evaluated' = {}
  /\ bids' = {}
  /\ dropped' = FALSE

\* monitor_auctions: the client is created and the loop entered
ConnectOk ==
  /\ wPc = "connect"
  /\ BeginCycle
  /\ UNCHANGED <<active_auctions, orders, prices, tx>>
  /\ UNCHANGED <<lastSet, pricesBefore>>
  /\ UNCHANGED response
  /\ UNCHANGED <<cacheVars, evalVars, storeVars, walletVars>>

\* monitor_auctions: Client::with_endpoints failed, `?` returns the error
ConnectErr ==
  /\ wPc = "connect"
  /\ wPc' = "returned"
  /\ UNCHANGED <<active_auctions, orders, prices, ai, oi, visited, evaluated, bids, tx>>
  /\ UNCHANGED <<lastSet, pricesBefore>>
  /\ UNCHANGED <<response, dropped>>
  /\ UNCHANGED <<cacheVars, evalVars, storeVars, walletVars>>

\* a variant of WatcherQueryOk that appends the answer to the list
WatcherQueryAppends ==
  /\ wPc = "refresh"
  /\ \E resp \in WatcherResponses :
       /\ active_auctions' = active_auctions \o resp
       /\ response' = resp
       /\ dropped' = (\E k \in 1..Len(active_auctions) :
                        \A n \in 1..Len(resp) : resp[n] # active_auctions[k])
  /\ wPc' = "scan"
  /\ ai' = 1
  /\ oi' = 0
  /\ UNCHANGED <<orders, prices, visited, evaluated, bids, tx>>
  /\ UNCHANGED <<lastSet, pricesBefore>>
  /\ UNCHANGED <<cacheVars, evalVars, storeVars, walletVars>>

\* Watcher::refresh_active_auctions: the answer replaces self.active_auctions
WatcherQueryOk ==
  /\ wPc = "refresh"
  /\ \E resp \in WatcherResponses :
       /\ active_auctions' = resp
       /\ response' = resp
       /\ dropped' = (\E k \in 1..Len(active_auctions) :
                        \A n \in 1..Len(resp) : resp[n] # active_auctions[k])
  /\ wPc' = "scan"
  /\ ai' = 1
  /\ oi' = 0
  /\ UNCHANGED <<orders, prices, visited, evaluated, bids, tx>>
  /\ UNCHANGED <<lastSet, pricesBefore>>
  /\ UNCHANGED <<cacheVars, evalVars, storeVars, walletVars>>

\* Watcher::refresh_active_auctions failed: `?` in it and `?` in
\* monitor_auctions return the error, out of the loop
WatcherQueryErr ==
  /\ wPc = "refresh"
  /\ wPc' = "returned"
  /\ UNCHANGED <<active_auctions, orders, prices, ai, oi, visited, evaluated, bids, tx>>
  /\ UNCHANGED <<lastSet, pricesBefore>>
  /\ UNCHANGED <<response, dropped>>
  /\ UNCHANGED <<cacheVars, evalVars, storeVars, walletVars>>

\* a variant of MatchingOrders that takes the orders of some denom of the
\* book, whatever the denom of the auction
OrdersOfAnyDenom(book, auction_denom) ==
  IF DOMAIN book = {} THEN [some |-> FALSE, key |-> auction_denom, list |-> <<>>]
  ELSE LET k == CHOOSE d \in DOMAIN book : d # auction_denom \/ DOMAIN book = {d}
       IN  [some |-> TRUE, key |-> k, list |-> book[k]]

\* self.orders.get(&auction_denom): the Vec<Order> stored under the denom of
\* the auction, with the key it is stored under
MatchingOrders(book, auction_denom) ==
  IF auction_denom \in DOMAIN book
  THEN [some |-> TRUE, key |-> auction_denom, list |-> book[auction_denom]]
  ELSE [some |-> FALSE, key |-> auction_denom, list |-> <<>>]

\* the place after (ai, oi) in the two nested for loops
NextCursor(n) == IF oi < n THEN <<ai, oi + 1>> ELSE <<ai + 1, 0>>

\* a variant of ScanAuction in which a denom that does not parse ends
\* monitor_auctions with the error
ScanAuctionReturns ==
  /\ wPc = "scan"
  /\ oi = 0
  /\ ai <= Len(active_auctions)
  /\ LET auction == active_auctions[ai]
         start == auction.starting_tokens_for_sale
         auction_denom == DenomTryFrom(start.denom)
         found == MatchingOrders(orders, auction_denom.val)
     IN  IF ~start.some
         THEN wPc' = "panicked" /\ UNCHANGED <<ai, oi>>
         ELSE IF ~auction_denom.ok
         THEN wPc' = "returned" /\ UNCHANGED <<ai, oi>>
         ELSE /\ wPc' = wPc
              /\ IF found.some /\ found.list # <<>>
                 THEN ai' = ai /\ oi' = 1
                 ELSE ai' = ai + 1 /\ oi' = 0
  /\ UNCHANGED <<active_auctions, orders, prices, visited, evaluated, bids, tx>>
  /\ UNCHANGED <<lastSet, pricesBefore>>
  /\ UNCHANGED <<response, dropped>>
  /\ UNCHANGED <<cacheVars, evalVars, storeVars, walletVars>>

\* the head of the outer loop body for the auction at ai: the unwrap of
\* starting_tokens_for_sale, Denom::try_from, self.orders.get
ScanAuction ==
  /\ wPc = "scan"
  /\ oi = 0
  /\ ai <= Len(active_auctions)
  /\ LET auction == active_auctions[ai]
         start == auction.starting_tokens_for_sale
         auction_denom == DenomTryFrom(start.denom)
         found == MatchingOrders(orders, auction_denom.val)
     IN  IF ~start.some
         THEN wPc' = "panicked" /\ UNCHANGED <<ai, oi>>
         ELSE /\ wPc' = wPc
              /\ IF /\ auction_denom.ok
                    /\ found.some
                    /\ found.list # <<>>
                 THEN ai' = ai /\ oi' = 1
                 ELSE ai' = ai + 1 /\ oi' = 0
  /\ UNCHANGED <<active_auctions, orders, prices, visited, evaluated, bids, tx>>
  /\ UNCHANGED <<lastSet, pricesBefore>>
  /\ UNCHANGED <<response, dropped>>
  /\ UNCHANGED <<cacheVars, evalVars, storeVars, walletVars>>

\* a variant of PriceLookup that falls back to a price of 1 usd
PriceOrDefault(m, d) ==
  IF d \in DOMAIN m THEN [some |-> TRUE, val |-> m[d]]
  ELSE [some |-> TRUE, val |-> RoundToF64(1, 1)]

\* self.prices.get(&auction_denom)
PriceLookup(m, d) ==
  IF d \in DOMAIN m THEN [some |-> TRUE, val |-> m[d]]
  ELSE [some |-> FALSE, val |-> RoundToF64(1, 1)]

\* the denom of the auction the loops are at
CursorDenom == active_auctions[ai].starting_tokens_for_sale.denom

\* the inner loop body for the order at oi: the price lookup, evaluate_bid,
\* and the empty `// submit bid` branch
ScanOrder ==
  /\ wPc = "scan"
  /\ oi >= 1
  /\ LET auction == active_auctions[ai]
         found == MatchingOrders(orders, CursorDenom)
         order == found.list[oi]
         usd_unit_value == PriceLookup(prices, CursorDenom)
         result == evaluate_bid(order, usd_unit_value.val, auction)
         next == NextCursor(Len(found.list))
     IN  /\ visited' = visited \cup {<<ai, oi>>}
         /\ IF ~usd_unit_value.some
            THEN /\ wPc' = wPc /\ ai' = next[1] /\ oi' = next[2]
                 /\ UNCHANGED <<evaluated, bids>>
            ELSE /\ evaluated' = evaluated \cup {<<ai, oi>>}
                 /\ IF result.kind = "panic"
                    THEN wPc' = "panicked" /\ UNCHANGED <<ai, oi, bids>>
                    ELSE /\ wPc' = wPc /\ ai' = next[1] /\ oi' = next[2]
                         /\ bids' = IF result.kind = "bid"
                                    THEN bids \cup {[at |-> <<ai, oi>>, key |-> found.key,
                                                       bid |-> result.bid]}
                                    ELSE bids
  /\ UNCHANGED <<active_auctions, orders, prices, tx>>
  /\ UNCHANGED <<lastSet, pricesBefore>>
  /\ UNCHANGED <<response, dropped>>
  /\ UNCHANGED <<cacheVars, evalVars, storeVars, walletVars>>

\* the outer loop is over: the 5 s sleep begins
ScanDone ==
  /\ wPc = "scan"
  /\ oi = 0
  /\ ai > Len(active_auctions)
  /\ wPc' = "sleep"
  /\ UNCHANGED <<active_auctions, orders, prices, ai, oi, visited, evaluated, bids, tx>>
  /\ UNCHANGED <<lastSet, pricesBefore>>
  /\ UNCHANGED <<response, dropped>>
  /\ UNCHANGED <<cacheVars, evalVars, storeVars, walletVars>>

\* the sleep is over: the next cycle
WatcherWake ==
  /\ wPc = "sleep"
  /\ BeginCycle
  /\ UNCHANGED <<active_auctions, orders, prices, tx>>
  /\ UNCHANGED <<lastSet, pricesBefore>>
  /\ UNCHANGED response
  /\ UNCHANGED <<cacheVars, evalVars, storeVars, walletVars>>

WatcherNext ==
  \/ UpdatePrices
  \/ MonitorAuctions
  \/ ConnectOk
  \/ ConnectErr
  \/ WatcherQueryOk
  \/ WatcherQueryErr
  \/ ScanAuction
  \/ ScanOrder
  \/ ScanDone
  \/ WatcherWake

\* ------------------------------------------------------ user store: data
\* A value of SQLite: an INTEGER or a TEXT. A text is the digits of a number
\* ([ok, v], as above) or its characters.
Integer(n) == [type |-> "integer", v |-> n]
Text(t) == [type |-> "text", v |-> t]

\* the comparison of two values: an INTEGER and a TEXT are never equal
SameValue(a, b) == a.type = b.type /\ a.v = b.v

\* i64::to_string
to_string(n) == Digits(n)

\* a variant of IntegerAffinity that leaves a text a text
NoAffinity(value) == value

\* What a column or a comparison of INTEGER affinity makes of a value: a text
\* that is the digits of an integer becomes that integer, any other value
\* stays what it is.
IntegerAffinity(value) ==
  IF value.type = "text" /\ value.v \in [ok : {TRUE}, v : Int]
  THEN Integer(value.v.v)
  ELSE value

UserIds == 1..MaxUser

\* the bech32 addresses a user may give
Addresses == {"somm1a", "somm1b", "somm1c"}

\* struct UserInfo, read from a row of user_info
MkUserInfo(id, user_id, somm_address) ==
  [id |-> id, user_id |-> user_id, somm_address |-> somm_address]

NoUserInfo == MkUserInfo(0, Integer(0), "")

\* Result<usize, rusqlite::Error> and Result<Option<UserInfo>, rusqlite::Error>
OkCount(n) == [ok |-> TRUE, n |-> n, some |-> FALSE, row |-> NoUserInfo]
OkSome(row) == [ok |-> TRUE, n |-> 0, some |-> TRUE, row |-> row]
OkNone == [ok |-> TRUE, n |-> 0, some |-> FALSE, row |-> NoUserInfo]
SqlErr == [ok |-> FALSE, n |-> 0, some |-> FALSE, row |-> NoUserInfo]
NoResult == [ok |-> FALSE, n |-> 0, some |-> FALSE, row |-> NoUserInfo]

NoCall == [op |-> "none", user_id |-> 0, somm_address |-> ""]
MkCall(op, user_id, somm_address) ==
  [op |-> op, user_id |-> user_id, somm_address |-> somm_address]

\* id INTEGER PRIMARY KEY: a row inserted without an id gets the largest id
\* of the table plus one
NextRowId(rows) ==
  IF rows = {} THEN 1
  ELSE (CHOOSE i \in {r.id : r \in rows} : \A r \in rows : r.id <= i) + 1

\* WHERE user_id = ?: the parameter is compared under the affinity of the
\* column
WhereUserId(rows, param) ==
  {r \in rows : SameValue(r.user_id, IntegerAffinity(param))}

\* ------------------------------------------------- user store: statements
\* Each statement gives the rows it leaves and the value it returns.
\* init: CREATE TABLE IF NOT EXISTS user_info
init_table(d) ==
  [db |-> [created |-> TRUE, rows |-> d.rows], result |-> OkCount(0)]

\* get_user_info: the first row of SELECT * FROM user_info WHERE user_id = ?,
\* the parameter an i64
get_user_info(d, user_id) ==
  LET found == WhereUserId(d.rows, Integer(user_id))
  IN  [db |-> d,
       result |-> IF ~d.created THEN SqlErr
                  ELSE IF found = {} THEN OkNone
                  ELSE OkSome(CHOOSE r \in found : TRUE)]

\* insert_user_info: INSERT INTO user_info (user_id, somm_address), the
\* parameters two strings. user_id and somm_address are UNIQUE: the
\* statement fails when a row holds either value.
insert_user_info(d, user_id, somm_address) ==
  LET stored == IntegerAffinity(Text(to_string(user_id)))
      row == MkUserInfo(NextRowId(d.rows), stored, somm_address)
  IN  IF ~d.created THEN [db |-> d, result |-> SqlErr]
      ELSE IF \E r \in d.rows :
                SameValue(r.user_id, stored) \/ r.somm_address = somm_address
      THEN [db |-> d, result |-> SqlErr]
      ELSE [db |-> [d EXCEPT !.rows = @ \cup {row}], result |-> OkCount(1)]

\* update_user_info: UPDATE user_info SET somm_address = ? WHERE user_id = ?,
\* the parameters two strings. The statement fails when another row holds
\* the address.
update_user_info(d, user_id, somm_address) ==
  LET found == WhereUserId(d.rows, Text(to_string(user_id)))
      others == d.rows \ found
      updated == {[r EXCEPT !.somm_address = somm_address] : r \in found}
  IN  IF ~d.created THEN [db |-> d, result |-> SqlErr]
      ELSE IF found # {} /\ (\E r \in others : r.somm_address = somm_address)
      THEN [db |-> d, result |-> SqlErr]
      ELSE [db |-> [d EXCEPT !.rows = others \cup updated],
            result |-> OkCount(Cardinality(found))]

\* a variant of delete_user_info without the WHERE clause
delete_every_user_info(d, user_id) ==
  IF ~d.created THEN [db |-> d, result |-> SqlErr]
  ELSE [db |-> [d EXCEPT !.rows = {}], result |-> OkCount(Cardinality(d.rows))]

\* delete_user_info: DELETE FROM user_info WHERE user_id = ?, the parameter
\* an i64
delete_user_info(d, user_id) ==
  LET found == WhereUserId(d.rows, Integer(user_id))
  IN  IF ~d.created THEN [db |-> d, result |-> SqlErr]
      ELSE [db |-> [d EXCEPT !.rows = @ \ found],
            result |-> OkCount(Cardinality(found))]

\* ---------------------------------------------------- user store: actions
\* no database file yet
InitStore ==
  /\ db = [created |-> FALSE, rows |-> {}]
  /\ dbCall = NoCall
  /\ dbResult = NoResult
  /\ dbBefore = db

\* a call of a function of db.rs, from the first statement to the return
Call(call, out) ==
  /\ dbCall' = call
  /\ dbBefore' = db
  /\ db' = out.db
  /\ dbResult' = out.result

\* main calls init before anything else, each time the process is started
DbInit ==
  /\ Call(MkCall("init", 0, ""), init_table(db))
  /\ UNCHANGED <<cacheVars, watcherVars, evalVars, walletVars>>

GetUserInfo(user_id) ==
  /\ db.created
  /\ Call(MkCall("get", user_id, ""), get_user_info(db, user_id))
  /\ UNCHANGED <<cacheVars, watcherVars, evalVars, walletVars>>

InsertUserInfo(user_id, somm_address) ==
  /\ db.created
  /\ NextRowId(db.rows) <= MaxRowId
  /\ Call(MkCall("insert", user_id, somm_address),
          insert_user_info(db, user_id, somm_address))
  /\ UNCHANGED <<cacheVars, watcherVars, evalVars, walletVars>>

UpdateUserInfo(user_id, somm_address) ==
  /\ db.created
  /\ Call(MkCall("update", user_id, somm_address),
          update_user_info(db, user_id, somm_address))
  /\ UNCHANGED <<cacheVars, watcherVars, evalVars, walletVars>>

DeleteUserInfo(user_id) ==
  /\ db.created
  /\ Call(MkCall("delete", user_id, ""), delete_user_info(db, user_id))
  /\ UNCHANGED <<cacheVars, watcherVars, evalVars, walletVars>>

StoreNext ==
  \/ DbInit
  \/ \E u \in UserIds : GetUserInfo(u)
  \/ \E u \in UserIds, a \in Addresses : InsertUserInfo(u, a)
  \/ \E u \in UserIds, a \in Addresses : UpdateUserInfo(u, a)
  \/ \E u \in UserIds : DeleteUserInfo(u)

\* -------------------------------------------------- SetWallet: the data
\* The text after /setwallet: a bech32 address, written by its prefix and
\* its bytes, or something AccountId::from_str refuses.
Bech32(prefix, bytes) == [ok |-> TRUE, prefix |-> prefix, bytes |-> bytes]
NotBech32 == [ok |-> FALSE, prefix |-> "", bytes |-> ""]

WalletTexts ==
  {Bech32("somm", "a"), Bech32("somm", "b"), Bech32("cosmos", "a"), NotBech32}

\* AccountId::to_string
AccountIdToString(acc) == acc.prefix \o "1" \o acc.bytes

\* AccountId::new("somm", &acc.to_bytes()): the same bytes under the prefix somm
WithSommPrefix(acc) == [acc EXCEPT !.prefix = "somm"]

\* the address the branch goes on with
StoredAddress(text) ==
  IF text.prefix # "somm" THEN AccountIdToString(WithSommPrefix(text))
  ELSE AccountIdToString(text)

\* The runs of message_handler that may be in progress at once.
Handlers == {"h1", "h2"}

NoCmd == [user_id |-> 0, address |-> ""]

\* ----------------------------------------------- SetWallet: the actions
InitWallet ==
  /\ hPc = [h \in Handlers |-> "idle"]
  /\ hCmd = [h \in Handlers |-> NoCmd]
  /\ hSaw = [h \in Handlers |-> FALSE]
  /\ hOut = [h \in Handlers |-> "none"]
  /\ lastDone = [u \in UserIds |-> ""]

\* Command::SetWallet(address) with a text that is no bech32 address: the
\* reply is sent and Ok(()) returned, before the database is opened
SetWalletInvalid(h, user_id, text) ==
  /\ db.created
  /\ hPc[h] = "idle"
  /\ ~text.ok
  /\ hOut' = [hOut EXCEPT ![h] = "invalid"]
  /\ hCmd' = [hCmd EXCEPT ![h] = NoCmd]
  /\ UNCHANGED <<hPc, hSaw, lastDone>>
  /\ UNCHANGED <<cacheVars, watcherVars, evalVars, storeVars>>

\* Command::SetWallet(address) with a bech32 address: the prefix is made
\* somm, the user is read from the message
SetWalletValid(h, user_id, text) ==
  /\ db.created
  /\ hPc[h] = "idle"
  /\ text.ok
  /\ hPc' = [hPc EXCEPT ![h] = "get"]
  /\ hCmd' = [hCmd EXCEPT ![h] = [user_id |-> user_id, address |-> StoredAddress(text)]]
  /\ hOut' = [hOut EXCEPT ![h] = "none"]
  /\ UNCHANGED <<hSaw, lastDone>>
  /\ UNCHANGED <<cacheVars, watcherVars, evalVars, storeVars>>

\* db::get_connection and db::get_user_info(&conn, user.id.0 as i64)?
HandlerGet(h) ==
  /\ hPc[h] = "get"
  /\ LET out == get_user_info(db, hCmd[h].user_id)
     IN  /\ Call(MkCall("get", hCmd[h].user_id, ""), out)
         /\ IF out.result.ok
            THEN /\ hPc' = [hPc EXCEPT ![h] = "write"]
                 /\ hSaw' = [hSaw EXCEPT ![h] = out.result.some]
                 /\ UNCHANGED hOut
            ELSE /\ hPc' = [hPc EXCEPT ![h] = "idle"]
                 /\ hOut' = [hOut EXCEPT ![h] = "dberr"]
                 /\ UNCHANGED hSaw
  /\ UNCHANGED <<hCmd, lastDone>>
  /\ UNCHANGED <<cacheVars, watcherVars, evalVars>>

\* if user_info.is_none() { insert_user_info } else { update_user_info }
WriteOf(saw, d, user_id, address) ==
  IF ~saw
  THEN [call |-> MkCall("insert", user_id, address),
        out |-> insert_user_info(d, user_id, address)]
  ELSE [call |-> MkCall("update", user_id, address),
        out |-> update_user_info(d, user_id, address)]

\* the insert or the update, with `?`, and the reply that follows it
HandlerWrite(h) ==
  /\ hPc[h] = "write"
  /\ LET w == WriteOf(hSaw[h], db, hCmd[h].user_id, hCmd[h].address)
     IN  /\ Call(w.call, w.out)
         /\ hOut' = [hOut EXCEPT ![h] = IF w.out.result.ok THEN "ok" ELSE "dberr"]
         /\ lastDone' = IF w.out.result.ok /\ w.out.result.n > 0
                        THEN [lastDone EXCEPT ![hCmd[h].user_id] = hCmd[h].address]
                        ELSE lastDone
  /\ hPc' = [hPc EXCEPT ![h] = "idle"]
  /\ UNCHANGED <<hCmd, hSaw>>
  /\ UNCHANGED <<cacheVars, watcherVars, evalVars>>

WalletNext ==
  \/ DbInit
  \/ \E h \in Handlers, u \in UserIds, t \in WalletTexts : SetWalletInvalid(h, u, t)
  \/ \E h \in Handlers, u \in UserIds, t \in WalletTexts : SetWalletValid(h, u, t)
  \/ \E h \in Handlers : HandlerGet(h)
  \/ \E h \in Handlers : HandlerWrite(h)

\* ------------------------------------------------- evaluate_bid on its own
InitEval(in) ==
  /\ evalIn = in
  /\ evalOut = [kind |-> "pending", bid |-> NoBid]

\* one call of evaluate_bid
Evaluate ==
  /\ evalOut.kind = "pending"
  /\ evalOut' = evaluate_bid(evalIn.order, evalIn.usd, evalIn.auction)
  /\ UNCHANGED evalIn
  /\ UNCHANGED <<cacheVars, watcherVars, storeVars, walletVars>>

\* The arguments evaluate_bid is checked on: every maximum_usomm_in of the
\* word, unit prices and usd values that are f64 numbers as written, so that
\* parsing them loses nothing.
EvalPrices == {Dec(1, 1), Dec(2, 1), Dec(3, 1), Dec(5, 1), Dec(1, 2), Dec(1, 4)}

EvalRemaining == {0, 3, 7, U64Max}

EvalUsdValues == {RoundToF64(1, 2), RoundToF64(1, 1), RoundToF64(2, 1)}

EvalMinimums == {0, 1, 3, 6, 7, 20}

EvalInputs ==
  { [order |-> MkOrder(max, min, "d2"),
     usd |-> usd,
     auction |-> MkAuction(1, SomeCoin("d1", Digits(U64Max)), price,
                           SomeCoin("d1", Digits(rem)))] :
      max \in 0..U64Max, min \in EvalMinimums, usd \in EvalUsdValues,
      price \in EvalPrices, rem \in EvalRemaining }

SampleInput ==
  [order |-> MkOrder(4, 1, "d2"),
   usd |-> RoundToF64(1, 1),
   auction |-> MkAuction(1, SomeCoin("d1", Digits(10)), Dec(2, 1),
                         SomeCoin("d1", Digits(10)))]

\* ---------------------------------------------------------- specifications
\* The cache crate: its run loop and its readers.
Init ==
  InitCache /\ InitWatcher(NoOrders) /\ InitEval(SampleInput) /\ InitStore /\ InitWallet

Next == CacheNext

Spec == Init /\ [][Next]_vars

\* The order engine's Watcher, constructed with any of the order books.
WatcherInit ==
  /\ InitCache
  /\ \E book \in OrderBooks : InitWatcher(book)
  /\ InitEval(SampleInput)
  /\ InitStore
  /\ InitWallet

WatcherSpec == WatcherInit /\ [][WatcherNext]_vars

\* evaluate_bid, on every argument of EvalInputs.
EvalInit ==
  /\ InitCache
  /\ InitWatcher(NoOrders)
  /\ \E in \in EvalInputs : InitEval(in)
  /\ InitStore
  /\ InitWallet

EvalSpec == EvalInit /\ [][Evaluate]_vars

\* The sleep of the run loop is a tokio timer: once it is due the task is
\* woken and polled.
FairSpec == Spec /\ WF_vars(CacheWake)

\* The functions of db.rs, called one at a time in any order.
StoreInit ==
  InitCache /\ InitWatcher(NoOrders) /\ InitEval(SampleInput) /\ InitStore /\ InitWallet

StoreSpec == StoreInit /\ [][StoreNext]_vars

\* The SetWallet commands of the bot, handled by up to two runs of
\* message_handler at once.
WalletInit ==
  InitCache /\ InitWatcher(NoOrders) /\ InitEval(SampleInput) /\ InitStore /\ InitWallet

WalletSpec == WalletInit /\ [][WalletNext]_vars

\* For the order in which the lock is handed out the contents of the lists
\* do not matter, their lengths do: a source with one list of each length.
LockInit ==
  /\ InitCacheOver("one list of each length")
  /\ InitWatcher(NoOrders)
  /\ InitEval(SampleInput)
  /\ InitStore
  /\ InitWallet

\* Fair scheduling of the tasks: a task that holds a guard and can take its
\* next step takes it. Nothing is assumed of how often get_active_auctions is
\* called, nor of the source.
LockFairSpec ==
  /\ LockInit
  /\ [][Next]_vars
  /\ WF_vars(InsertNext)
  /\ WF_vars(RefreshDone)
  /\ \A r \in Readers : WF_vars(ReadCopy(r)) /\ WF_vars(ReadReturn(r))

\* ------------------------------------------------------------------ claims
IdsOf(auctions) == {auctions[k].id : k \in 1..Len(auctions)}

\* the last record of the list that carries id i
LastWithId(auctions, i) ==
  auctions[CHOOSE k \in 1..Len(auctions) :
             /\ auctions[k].id = i
             /\ \A j \in (k + 1)..Len(auctions) : auctions[j].id # i]

\* C1: a snapshot collected by get_active_auctions is the whole mapping as it
\* was before the refresh in progress or the whole mapping as it is after all
\* of that refresh's upserts, never a mapping with only some of them.
SnapshotIsWhole ==
  \A r \in Readers :
    rpc[r] = "copied" =>
      snap[r] \in {Values(before), Values(UpsertAll(before, fetched))}

\* a reader holds its snapshot while a refresh that changes two entries has
\* its answer and is at the lock
SnapshotDuringRefresh ==
  \E r \in Readers :
    /\ rpc[r] = "copied"
    /\ cachePc = "write"
    /\ Len(fetched) = 2
    /\ fetched[1].id # fetched[2].id
    /\ \A k \in 1..2 : fetched[k] \notin Values(before)

\* C2: when the source query of a refresh fails, the refresh returns an
\* error and the mapping is what it was when the refresh was called.
FailedRefreshKeepsCache ==
  lastResult = "err" => (cache = before /\ cachePc = "sleep")

\* a refresh has failed over a cache that holds entries
FailedRefreshOverEntries ==
  /\ lastResult = "err"
  /\ cache # EmptyMap

\* the state a successful refresh leaves: every id of the answer maps to the
\* record of the answer, every other id cached before maps to its old record
RefreshPost ==
  lastResult = "ok" =>
    /\ \A i \in IdsOf(fetched) :
         i \in DOMAIN cache /\ cache[i] = LastWithId(fetched, i)
    /\ \A i \in (DOMAIN before) \ IdsOf(fetched) :
         i \in DOMAIN cache /\ cache[i] = before[i]

\* C3: after a successful refresh every id the source returned maps to the
\* record the source returned, every id cached before and absent from the
\* answer keeps its record, and the set of cached ids never shrinks.
RefreshUpserts ==
  /\ []RefreshPost
  /\ [][(DOMAIN cache) \subseteq (DOMAIN cache')]_vars

\* a successful refresh replaced one cached record and left another, absent
\* from the answer, in place
RefreshReplacedAndKept ==
  /\ lastResult = "ok"
  /\ \E i \in DOMAIN before : i \in IdsOf(fetched) /\ cache[i] # before[i]
  /\ \E i \in DOMAIN before : i \notin IdsOf(fetched)

\* C4: once the loop of run is entered a failed refresh never ends it: run
\* never returns, and every failed refresh is followed by the sleep and then
\* by another refresh attempt.
FailedRefreshIsRetried ==
  /\ [][cachePc \notin {"start", "returned"} => cachePc' # "returned"]_vars
  /\ (lastResult = "err") ~> (cachePc = "query")

\* a refresh failed earlier, and a later one wrote the source's answer
WrittenAfterFailure ==
  /\ everFailed
  /\ lastResult = "ok"
  /\ fetched # <<>>

\* min(floor(maximum_usomm_in / price), remaining), in exact arithmetic on the
\* numbers the texts of the auction write
ExactTokens(in) ==
  LET price == in.auction.current_unit_price_in_usomm
  IN  Min((in.order.maximum_usomm_in * price.d) \div price.n,
          in.auction.remaining_tokens_for_sale.amount.v)

\* C5: evaluate_bid returns a Bid if and only if
\* min(floor(maximum / price), remaining) * P >= minimum_usd_value_out, the
\* boundary included.
BidIffQualifies ==
  evalOut.kind \in {"bid", "none"} =>
    (evalOut.kind = "bid" <=>
       ExactTokens(evalIn) * evalIn.usd.n
         >= evalIn.order.minimum_usd_value_out * evalIn.usd.d)

\* C6: the minimum_tokens_out of a Bid is at most the remaining amount, and
\* times the unit price it is at most the order's maximum_usomm_in.
BidWithinLimits ==
  evalOut.kind = "bid" =>
    LET price == evalIn.auction.current_unit_price_in_usomm
        out == evalOut.bid.minimum_tokens_out
    IN  /\ out <= evalIn.auction.remaining_tokens_for_sale.amount.v
        /\ out * price.n <= evalIn.order.maximum_usomm_in * price.d

\* C7: every Bid an evaluation of this cycle produced has been handed to the
\* Sender<Bid> given to monitor_auctions.
BidsAreSent ==
  \A b \in bids : \E k \in 1..Len(tx) : tx[k] = b.bid

\* C8: a failed source query does not end the loop of monitor_auctions: the
\* step that answers the query never leaves monitor_auctions returned.
WatcherSurvivesQueryFailure ==
  [][wPc = "refresh" => wPc' # "returned"]_vars

\* an auction whose price or remaining amount does not parse, or that lacks
\* a token field
Malformed(auction) ==
  \/ ~auction.starting_tokens_for_sale.some
  \/ ~auction.remaining_tokens_for_sale.some
  \/ ~ParseU64(auction.remaining_tokens_for_sale.amount).ok
  \/ ~ParseF64(auction.current_unit_price_in_usomm).ok

\* C9: a failure local to the auction the scan is at never aborts the cycle:
\* the scan goes on to the next places and to the sleep.
MalformedAuctionIsSkipped ==
  [][(wPc = "scan" /\ ai <= Len(active_auctions) /\ Malformed(active_auctions[ai]))
       => wPc' \in {"scan", "sleep"}]_vars

\* C10: when the price map has no entry for the denom of the auction, the
\* order the scan is at is skipped: evaluate_bid is not called, no Bid is
\* produced or sent, nothing fails, and the scan moves to the next place.
NoPriceSkipsOrder ==
  [][(wPc = "scan" /\ oi >= 1 /\ CursorDenom \notin DOMAIN prices)
       => /\ evaluated' = evaluated
          /\ bids' = bids
          /\ tx' = tx
          /\ wPc' = "scan"
          /\ <<ai', oi'>> = NextCursor(Len(orders[CursorDenom]))]_vars

\* a cycle ran to its end in which an order was skipped for lack of a price
\* and an order of a later auction was evaluated
SkippedThenEvaluated ==
  /\ wPc = "sleep"
  /\ \E p \in visited \ evaluated :
       /\ active_auctions[p[1]].starting_tokens_for_sale.denom \notin DOMAIN prices
       /\ \E q \in evaluated : q[1] > p[1]

\* the denoms of the auctions of the watcher's list that have one
ActiveDenoms ==
  {active_auctions[i].starting_tokens_for_sale.denom :
     i \in {j \in 1..Len(active_auctions) :
              active_auctions[j].starting_tokens_for_sale.some}}

\* C11: a Bid is produced only for an auction and an order of the same
\* denom: the order of every Bid is stored under the denom of its auction,
\* so an order on a denom of no active auction and an auction on a denom of
\* no order contribute no Bid.
BidsMatchDenoms ==
  \A b \in bids :
    LET auction == active_auctions[b.at[1]]
    IN  /\ auction.starting_tokens_for_sale.some
        /\ b.key = auction.starting_tokens_for_sale.denom
        /\ b.key \in DOMAIN orders
        /\ b.key \in ActiveDenoms
        /\ b.bid.auction_id = auction.id

\* a cycle ran to its end with a Bid, with an auction on a denom that has no
\* order
BidBesideUnmatchedAuction ==
  /\ wPc = "sleep"
  /\ bids # {}
  /\ \E d \in ActiveDenoms : d \in Denoms /\ d \notin DOMAIN orders

\* C12: refresh is idempotent: a successful refresh answered with the same
\* list as the successful refresh before it leaves the mapping, and so the
\* snapshot, as that refresh left it.
RefreshIsIdempotent ==
  (lastResult = "ok" /\ repeated) =>
    (cache = before /\ Values(cache) = Values(before))

\* two successive refreshes were answered with the same list of two
\* different auctions, and the second has finished its writes
RefreshedTwiceWithSameList ==
  /\ lastResult = "ok"
  /\ repeated
  /\ Len(fetched) = 2
  /\ fetched[1].id # fetched[2].id

\* C13: update_prices(m) replaces the whole price map: the watcher's price
\* map is exactly the last m it was given, with no price left from the map
\* before, and the call changes neither the order book nor the list of
\* active auctions.
UpdatePricesReplaces ==
  /\ [](prices = lastSet)
  /\ [][(prices' # prices \/ lastSet' # lastSet \/ pricesBefore' # pricesBefore)
          => (orders' = orders /\ active_auctions' = active_auctions)]_vars

\* update_prices was called, on a watcher with orders and a list of auctions,
\* with a map that lacks a denom that had a price: it has none now
PriceDroppedByUpdate ==
  /\ \E d \in DOMAIN pricesBefore : d \notin DOMAIN lastSet /\ d \notin DOMAIN prices
  /\ DOMAIN prices # {}
  /\ active_auctions # <<>>
  /\ DOMAIN orders # {}

\* C14: writes to the mapping are exclusive and are not starved: the write
\* guard is never held beside a read guard; whatever the readers do, a
\* refresh that got the source's list obtains the write lock and completes
\* its upserts; and every call of get_active_auctions returns.
WritesExclusiveNotStarved ==
  /\ [](~(lock.writer /\ lock.readers # {}))
  /\ (cachePc = "write") ~> (cachePc = "write" /\ lock.writer)
  /\ (cachePc = "write") ~> (lastResult = "ok" /\ pending = <<>>)
  /\ \A r \in Readers : (rpc[r] # "idle") ~> (rpc[r] = "idle")

\* the refresh holds the write guard and has written its list, with every
\* reader waiting in the queue behind it
WriterServedBetweenReaders ==
  /\ cachePc = "write"
  /\ lock.writer
  /\ fetched # <<>>
  /\ pending = <<>>
  /\ \A r \in Readers : rpc[r] = "read"
  /\ Len(lock.queue) = Cardinality(Readers)

RowsOf(rows, user_id) == {r \in rows : SameValue(r.user_id, Integer(user_id))}

\* C15: after insert_user_info(user_id, address) succeeds on an initialised
\* database, get_user_info(user_id) returns the record of that user_id with
\* that address; get_user_info of a user_id that has no row returns Ok(None).
InsertedUserIsFound ==
  /\ (dbCall.op = "insert" /\ dbBefore.created /\ dbResult.ok) =>
       LET got == get_user_info(db, dbCall.user_id).result
       IN  /\ got.ok
           /\ got.some
           /\ SameValue(got.row.user_id, Integer(dbCall.user_id))
           /\ got.row.somm_address = dbCall.somm_address
  /\ (dbCall.op = "get" /\ dbBefore.created) =>
       /\ dbResult.ok
       /\ dbResult.some <=> RowsOf(dbBefore.rows, dbCall.user_id) # {}
       /\ dbResult.some => dbResult.row \in RowsOf(dbBefore.rows, dbCall.user_id)

\* a user was inserted beside the row of another user, after a row was
\* deleted: the rowid of the new row is not its user_id
InsertedBesideAnother ==
  /\ dbCall.op = "insert"
  /\ dbResult.ok
  /\ dbBefore.rows # {}
  /\ \E r \in db.rows : SameValue(r.user_id, Integer(dbCall.user_id)) /\ r.id > MaxUser

\* the rows of the other users are what they were before the call
OthersUntouched ==
  db.rows \ RowsOf(db.rows, dbCall.user_id)
    = dbBefore.rows \ RowsOf(dbBefore.rows, dbCall.user_id)

\* the address of the call is in the row of another user
AddressTaken ==
  \E r \in dbBefore.rows \ RowsOf(dbBefore.rows, dbCall.user_id) :
    r.somm_address = dbCall.somm_address

\* C16, as stated: insert_user_info of a new user returns 1, and
\* update_user_info and delete_user_info of a user that has a row each
\* return 1 and touch no other user's row.
EachMutationChangesOneRow ==
  /\ (dbCall.op = "insert" /\ RowsOf(dbBefore.rows, dbCall.user_id) = {}) =>
       (dbResult.ok /\ dbResult.n = 1)
  /\ (dbCall.op \in {"update", "delete"}
        /\ RowsOf(dbBefore.rows, dbCall.user_id) # {}) =>
       (dbResult.ok /\ dbResult.n = 1 /\ OthersUntouched)

\* C16, amended: insert_user_info of a new user and update_user_info of a
\* user that has a row return 1 when no other user's row holds the address,
\* and fail, changing nothing, when one does; delete_user_info of a user
\* that has a row returns 1; none of them touches another user's row.
MutationChangesOneRowOrFails ==
  /\ (dbCall.op = "insert" /\ RowsOf(dbBefore.rows, dbCall.user_id) = {}) =>
       IF AddressTaken THEN ~dbResult.ok /\ db = dbBefore
       ELSE dbResult.ok /\ dbResult.n = 1 /\ OthersUntouched
  /\ (dbCall.op = "update" /\ RowsOf(dbBefore.rows, dbCall.user_id) # {}) =>
       IF AddressTaken THEN ~dbResult.ok /\ db = dbBefore
       ELSE dbResult.ok /\ dbResult.n = 1 /\ OthersUntouched
  /\ (dbCall.op = "delete" /\ RowsOf(dbBefore.rows, dbCall.user_id) # {}) =>
       (dbResult.ok /\ dbResult.n = 1 /\ OthersUntouched)

\* the address of one of two users was updated to one that nobody held
UpdatedOneOfTwo ==
  /\ dbCall.op = "update"
  /\ dbResult.ok
  /\ dbResult.n = 1
  /\ Cardinality(dbBefore.rows) = 2
  /\ db.rows # dbBefore.rows

\* C17: every Bid of evaluate_bid carries the id of the auction, the
\* fee_token of the order, the full maximum_usomm_in of the order, and
\* minimum_tokens_out = min(floor(maximum_usomm_in / price), remaining).
BidCarriesFields ==
  evalOut.kind = "bid" =>
    /\ evalOut.bid.auction_id = evalIn.auction.id
    /\ evalOut.bid.fee_token = evalIn.order.fee_token
    /\ evalOut.bid.maximum_usomm_in = evalIn.order.maximum_usomm_in
    /\ evalOut.bid.minimum_tokens_out = ExactTokens(evalIn)

\* the denom string of the auction is there and Denom::try_from refuses it
UnparseableDenom(auction) ==
  /\ auction.starting_tokens_for_sale.some
  /\ ~DenomTryFrom(auction.starting_tokens_for_sale.denom).ok

\* C18: when the denom string of an auction does not parse, the watcher
\* skips that auction only: no order is evaluated against it, no error is
\* returned, and the scan goes on with the next auction of the cycle.
UnparseableDenomSkipsAuction ==
  /\ [](\A at \in visited \cup evaluated \cup {b.at : b \in bids} :
          ~UnparseableDenom(active_auctions[at[1]]))
  /\ [][(/\ wPc = "scan"
          /\ oi = 0
          /\ ai <= Len(active_auctions)
          /\ UnparseableDenom(active_auctions[ai]))
         => (/\ wPc' = "scan"
             /\ ai' = ai + 1
             /\ oi' = 0
             /\ UNCHANGED <<visited, evaluated, bids, tx, active_auctions>>)]_vars

\* a cycle is over in which an auction with a denom that does not parse was
\* passed and an order was evaluated against an auction after it
EvaluatedAfterUnparseableDenom ==
  /\ wPc = "sleep"
  /\ \E i \in 1..Len(active_auctions) :
       /\ UnparseableDenom(active_auctions[i])
       /\ \E at \in evaluated : at[1] > i

\* C19: the list of the watcher is replaced whole by each successful query:
\* in a cycle the list is that cycle's answer, and every order evaluated and
\* every Bid is for an auction of that answer; an auction of an earlier
\* answer that the current one lacks is not evaluated and yields no Bid.
ListIsThisCyclesAnswer ==
  wPc \in {"scan", "sleep", "panicked"} =>
    /\ active_auctions = response
    /\ \A at \in visited \cup evaluated : at[1] \in 1..Len(response)
    /\ \A b \in bids :
         /\ b.at[1] \in 1..Len(response)
         /\ b.bid.auction_id = response[b.at[1]].id

\* a cycle is over whose answer lacked an auction of the cycle before, and
\* in which an order was evaluated and a Bid produced
EvaluatedAfterAuctionDropped ==
  /\ wPc = "sleep"
  /\ dropped
  /\ evaluated # {}
  /\ bids # {}

\* C20: the write lock is neither held nor asked for while the source query
\* is in flight: a call of get_active_auctions made meanwhile has its read
\* guard at once, and what it copies is the state the last write left.
NoWriteLockDuringQuery ==
  cachePc = "query" =>
    /\ ~lock.writer
    /\ lock.queue = <<>>
    /\ cache = before
    /\ \A r \in Readers :
         /\ rpc[r] = "read" => r \in lock.readers
         /\ rpc[r] = "copied" => snap[r] = Values(before)

\* with the query of a later refresh in flight, one reader holds its guard
\* and another has copied the auctions the refreshes before have written
SnapshotDuringQuery ==
  /\ cachePc = "query"
  /\ cache # EmptyMap
  /\ \E r1, r2 \in Readers :
       /\ rpc[r1] = "read"
       /\ r1 \in lock.readers
       /\ rpc[r2] = "copied"
       /\ snap[r2] = Values(cache)

\* C21: after any sequence of SetWallet commands, two of one user at once
\* included, the table holds at most one row per user_id, no command with a
\* valid address has ended with a database error, the address stored for a
\* user is that of the last command that completed for the user, and a
\* command with an invalid address changes no row.
SetWalletKeepsStore ==
  /\ [](/\ \A u \in UserIds : Cardinality(RowsOf(db.rows, u)) <= 1
        /\ \A h \in Handlers : hOut[h] # "dberr"
        /\ \A u \in UserIds :
             lastDone[u] # "" =>
               \E r \in RowsOf(db.rows, u) : r.somm_address = lastDone[u])
  /\ [][(\E h \in Handlers : hOut'[h] = "invalid" /\ hOut'[h] # hOut[h])
          => db' = db]_vars

====
